---------------------------- MODULE Spec2Model ----------------------------
(***************************************************************************)
(* ffi-converter: the parser's declaration model (parser/parser.go), the   *)
(* type mapper, the struct/enum emitter and the function binding           *)
(* synthesizer (generator/generator.go).                                   *)
(*                                                                         *)
(* A Go string is a sequence of one-character strings, so that the string  *)
(* functions of the source (TrimSpace, Split, Fields, ToUpper, ...) are    *)
(* computed character by character.  Emitted Go text is kept as the        *)
(* strings the source formats (type names, descriptors, call arguments,    *)
(* return expressions), grouped by the statement that carries them.        *)
(***************************************************************************)
EXTENDS Integers, Sequences, FiniteSets, TLC

VARIABLES input, header, files, err, pc, ct, mapped, name, goName

vars == <<input, header, files, err, pc, ct, mapped, name, goName>>

---------------------------------------------------------------------------
\* Go's strings and unicode packages, on sequences of characters.

LowerCase == <<"a","b","c","d","e","f","g","h","i","j","k","l","m","n","o","p","q","r","s","t","u","v","w","x","y","z">>

UpperCase == <<"A","B","C","D","E","F","G","H","I","J","K","L","M","N","O","P","Q","R","S","T","U","V","W","X","Y","Z">>

ToUpperCh(c) ==
    IF \E i \in DOMAIN LowerCase : LowerCase[i] = c
    THEN UpperCase[CHOOSE i \in DOMAIN LowerCase : LowerCase[i] = c]
    ELSE c

ToLowerCh(c) ==
    IF \E i \in DOMAIN UpperCase : UpperCase[i] = c
    THEN LowerCase[CHOOSE i \in DOMAIN UpperCase : UpperCase[i] = c]
    ELSE c

ToUpper(s) == [i \in 1..Len(s) |-> ToUpperCh(s[i])]

ToLower(s) == [i \in 1..Len(s) |-> ToLowerCh(s[i])]

IsSpace(c) == c \in {" ", "\t", "\n", "\r"}

RECURSIVE TrimLeft(_)
TrimLeft(s) == IF s # <<>> /\ IsSpace(Head(s)) THEN TrimLeft(Tail(s)) ELSE s

RECURSIVE TrimRight(_)
TrimRight(s) ==
    IF s # <<>> /\ IsSpace(s[Len(s)]) THEN TrimRight(SubSeq(s, 1, Len(s) - 1)) ELSE s

TrimSpace(s) == TrimRight(TrimLeft(s))

HasPrefix(s, p) == Len(s) >= Len(p) /\ SubSeq(s, 1, Len(p)) = p

HasSuffix(s, p) == Len(s) >= Len(p) /\ SubSeq(s, Len(s) - Len(p) + 1, Len(s)) = p

TrimPrefix(s, p) == IF HasPrefix(s, p) THEN SubSeq(s, Len(p) + 1, Len(s)) ELSE s

\* strings.Index, one-based; 0 when sub does not occur (Go: -1).
Index(s, sub) ==
    LET at == {i \in 1..(Len(s) - Len(sub) + 1) : SubSeq(s, i, i + Len(sub) - 1) = sub}
    IN  IF at = {} THEN 0 ELSE CHOOSE i \in at : \A j \in at : i <= j

Contains(s, sub) == Index(s, sub) # 0

\* strings.ReplaceAll for a non-empty old.
RECURSIVE ReplaceAll(_, _, _)
ReplaceAll(s, old, new) ==
    IF s = <<>> THEN <<>>
    ELSE IF HasPrefix(s, old)
         THEN new \o ReplaceAll(SubSeq(s, Len(old) + 1, Len(s)), old, new)
         ELSE <<Head(s)>> \o ReplaceAll(Tail(s), old, new)

\* strings.Split for a non-empty separator: Split("", ",") is one empty string.
RECURSIVE Split(_, _)
Split(s, sep) ==
    LET i == Index(s, sep)
    IN  IF i = 0 THEN <<s>>
        ELSE <<SubSeq(s, 1, i - 1)>> \o Split(SubSeq(s, i + Len(sep), Len(s)), sep)

\* strings.FieldsFunc(s, f) for f = membership in seps: the maximal runs of
\* characters outside seps, none of them empty.
RECURSIVE FieldsAcc(_, _, _)
FieldsAcc(s, seps, cur) ==
    IF s = <<>> THEN (IF cur = <<>> THEN <<>> ELSE <<cur>>)
    ELSE IF Head(s) \in seps
         THEN (IF cur = <<>> THEN <<>> ELSE <<cur>>) \o FieldsAcc(Tail(s), seps, <<>>)
         ELSE FieldsAcc(Tail(s), seps, Append(cur, Head(s)))

FieldsFunc(s, seps) == FieldsAcc(s, seps, <<>>)

Fields(s) == FieldsFunc(s, {" ", "\t", "\n", "\r"})

RECURSIVE Join(_, _)
Join(parts, sep) ==
    IF parts = <<>> THEN <<>>
    ELSE IF Len(parts) = 1 THEN parts[1]
    ELSE parts[1] \o sep \o Join(Tail(parts), sep)

---------------------------------------------------------------------------
\* String literals of the source.

\* C type names of the fixed primitive table (generator.go cTypeToGoType / cTypeToFFIType)
s_void == <<"v","o","i","d">>
s_bool == <<"b","o","o","l">>
s_char == <<"c","h","a","r">>
s_short == <<"s","h","o","r","t">>
s_int == <<"i","n","t">>
s_long == <<"l","o","n","g">>
s_int8_t == <<"i","n","t","8","_","t">>
s_uint8_t == <<"u","i","n","t","8","_","t">>
s_int16_t == <<"i","n","t","1","6","_","t">>
s_uint16_t == <<"u","i","n","t","1","6","_","t">>
s_int32_t == <<"i","n","t","3","2","_","t">>
s_uint32_t == <<"u","i","n","t","3","2","_","t">>
s_int64_t == <<"i","n","t","6","4","_","t">>
s_uint64_t == <<"u","i","n","t","6","4","_","t">>
s_size_t == <<"s","i","z","e","_","t">>
s_float == <<"f","l","o","a","t">>
s_double == <<"d","o","u","b","l","e">>
s_charStar == <<"c","h","a","r"," ","*">>

\* Tokens the parser looks for (parser.go)
s_const == <<"c","o","n","s","t">>
s_unsigned == <<"u","n","s","i","g","n","e","d">>
s_star == <<"*">>
s_starSpace == <<"*"," ">>
s_ellipsis == <<".",".",".">>
s_eq == <<"=">>
s_comma == <<",">>
s_semi == <<";">>
s_space == <<" ">>
s_empty == <<>>

\* Go type names (generator.go cTypeToGoType)
s_string == <<"s","t","r","i","n","g">>
s_uintptr == <<"u","i","n","t","p","t","r">>
s_int8 == <<"i","n","t","8">>
s_uint8 == <<"u","i","n","t","8">>
s_int16 == <<"i","n","t","1","6">>
s_uint16 == <<"u","i","n","t","1","6">>
s_int32 == <<"i","n","t","3","2">>
s_uint32 == <<"u","i","n","t","3","2">>
s_int64 == <<"i","n","t","6","4">>
s_uint64 == <<"u","i","n","t","6","4">>
s_float32 == <<"f","l","o","a","t","3","2">>
s_float64 == <<"f","l","o","a","t","6","4">>

\* Foreign descriptors (generator.go cTypeToFFIType)
s_TypePointer == <<"&","f","f","i",".","T","y","p","e","P","o","i","n","t","e","r">>
s_TypeVoid == <<"&","f","f","i",".","T","y","p","e","V","o","i","d">>
s_TypeUint8 == <<"&","f","f","i",".","T","y","p","e","U","i","n","t","8">>
s_TypeSint8 == <<"&","f","f","i",".","T","y","p","e","S","i","n","t","8">>
s_TypeUint16 == <<"&","f","f","i",".","T","y","p","e","U","i","n","t","1","6">>
s_TypeSint16 == <<"&","f","f","i",".","T","y","p","e","S","i","n","t","1","6">>
s_TypeUint32 == <<"&","f","f","i",".","T","y","p","e","U","i","n","t","3","2">>
s_TypeSint32 == <<"&","f","f","i",".","T","y","p","e","S","i","n","t","3","2">>
s_TypeUint64 == <<"&","f","f","i",".","T","y","p","e","U","i","n","t","6","4">>
s_TypeSint64 == <<"&","f","f","i",".","T","y","p","e","S","i","n","t","6","4">>
s_TypeFloat == <<"&","f","f","i",".","T","y","p","e","F","l","o","a","t">>
s_TypeDouble == <<"&","f","f","i",".","T","y","p","e","D","o","u","b","l","e">>
s_ampFFIType == <<"&","F","F","I","T","y","p","e">>
s_FFIType == <<"F","F","I","T","y","p","e">>

\* Pieces of emitted Go text (generator.go generateTypes / generateFunctionWrapper)
s_arg == <<"a","r","g">>
s_Func == <<"F","u","n","c">>
s_Ptr == <<"P","t","r">>
s_result == <<"r","e","s","u","l","t">>
s_resultPtr == <<"r","e","s","u","l","t","P","t","r">>
s_ffiArg == <<"f","f","i",".","A","r","g">>
s_starByte == <<"*","b","y","t","e">>
s_nil == <<"n","i","l">>
s_unsafePointerAmp == <<"u","n","s","a","f","e",".","P","o","i","n","t","e","r","(","&">>
s_rparen == <<")">>
s_amp == <<"&">>
s_resultBool == <<"r","e","s","u","l","t",".","B","o","o","l","(",")">>
s_parenResult == <<"(","r","e","s","u","l","t",")">>
s_bytePtrToString == <<"u","n","i","x",".","B","y","t","e","P","t","r","T","o","S","t","r","i","n","g","(","r","e","s","u","l","t","P","t","r",")">>
s_emptyStringLit == <<"\"","\"">>
s_iota == <<"i","o","t","a">>

\* Acronyms of toGoName (generator.go:460)
s_id == <<"i","d">>
s_url == <<"u","r","l">>
s_api == <<"a","p","i">>
s_http == <<"h","t","t","p">>
s_json == <<"j","s","o","n">>
s_xml == <<"x","m","l">>
s_sql == <<"s","q","l">>
s_io == <<"i","o">>
s_ip == <<"i","p">>
s_tcp == <<"t","c","p">>
s_udp == <<"u","d","p">>
---------------------------------------------------------------------------
\* parser/types.go and parser/parser.go.  The regular expressions of Parse
\* are applied by the caller of these operators: input holds the submatches
\* (m[1], m[2], m[3]) of each declaration the expressions matched.

\* parser.CType (types.go:3-10); IsArray and ArraySize are never set.
CType(n, ptr, cst, uns) ==
    [Name |-> n, IsPointer |-> ptr, IsConst |-> cst, IsUnsigned |-> uns]

parseCType(typeStr) ==
    LET t0 == TrimSpace(typeStr)
        cst == Contains(t0, s_const)
        t1 == IF cst THEN TrimSpace(ReplaceAll(t0, s_const, s_empty)) ELSE t0
        uns == Contains(t1, s_unsigned)
        t2 == IF uns THEN TrimSpace(ReplaceAll(t1, s_unsigned, s_empty)) ELSE t1
        ptr == HasSuffix(t2, s_star) \/ Contains(t2, s_starSpace)
        t3 == IF ptr THEN TrimSpace(ReplaceAll(t2, s_star, s_empty)) ELSE t2
    IN  CType(TrimSpace(t3), ptr, cst, uns)

\* One declarator of a parameter list or of a struct body (parser.go:244-266
\* and 107-126): the last token is the name, a leading * of it goes to the type.
Declarator(tokens) ==
    LET last == tokens[Len(tokens)]
        typeParts == SubSeq(tokens, 1, Len(tokens) - 1)
                        \o (IF HasPrefix(last, s_star) THEN <<s_star>> ELSE <<>>)
    IN  [Name |-> TrimPrefix(last, s_star), Type |-> parseCType(Join(typeParts, s_space))]

RECURSIVE parseParamParts(_)
parseParamParts(parts) ==
    IF parts = <<>> THEN <<>>
    ELSE LET part == TrimSpace(Head(parts))
             tokens == Fields(part)
             rest == parseParamParts(Tail(parts))
         IN  IF part = s_empty THEN rest
             ELSE IF part = s_ellipsis THEN rest
             ELSE IF Len(tokens) < 2
                  THEN <<[Name |-> s_empty, Type |-> parseCType(part)]>> \o rest
                  ELSE <<Declarator(tokens)>> \o rest

isVariadicParts(parts) == \E i \in DOMAIN parts : TrimSpace(parts[i]) = s_ellipsis

\* parseParams returns (params, isVariadic).
parseParams(paramsStr) ==
    LET parts == Split(paramsStr, s_comma)
    IN  [Params |-> parseParamParts(parts), IsVariadic |-> isVariadicParts(parts)]

\* The body of parseFunctions' loop, for one match m of funcRe.
parseFunction(m) ==
    LET retType == TrimSpace(m[1])
        paramsStr == TrimSpace(m[3])
        pp == parseParams(paramsStr)
    IN  IF paramsStr = s_void \/ paramsStr = s_empty
        THEN [Name |-> TrimSpace(m[2]), ReturnType |-> parseCType(retType),
              Params |-> <<>>, IsVariadic |-> FALSE]
        ELSE [Name |-> TrimSpace(m[2]), ReturnType |-> parseCType(retType),
              Params |-> pp.Params, IsVariadic |-> pp.IsVariadic]

parseFunctions(matches) == [i \in 1..Len(matches) |-> parseFunction(matches[i])]

RECURSIVE parseFieldLines(_)
parseFieldLines(lines) ==
    IF lines = <<>> THEN <<>>
    ELSE LET line == TrimSpace(Head(lines))
             parts == Fields(line)
             rest == parseFieldLines(Tail(lines))
         IN  IF line = s_empty THEN rest
             ELSE IF Len(parts) < 2 THEN rest
             ELSE <<Declarator(parts)>> \o rest

parseStructFields(body) == parseFieldLines(Split(body, s_semi))

\* parseTypeDefs' second loop: one opaque struct per match m of opaqueRe.
parseOpaques(matches) ==
    [i \in 1..Len(matches) |->
        [Name |-> TrimSpace(matches[i][2]), Fields |-> <<>>, IsOpaque |-> TRUE]]

\* parseStructs: one struct per match m of structRe (m[1] body, m[2] name).
parseStructs(matches) ==
    [i \in 1..Len(matches) |->
        [Name |-> TrimSpace(matches[i][2]),
         Fields |-> parseStructFields(TrimSpace(matches[i][1])),
         IsOpaque |-> FALSE]]

RECURSIVE parseEnumParts(_)
parseEnumParts(parts) ==
    IF parts = <<>> THEN <<>>
    ELSE LET part == TrimSpace(Head(parts))
             idx == Index(part, s_eq)
             rest == parseEnumParts(Tail(parts))
         IN  IF part = s_empty THEN rest
             ELSE IF idx # 0
                  THEN <<[Name |-> TrimSpace(SubSeq(part, 1, idx - 1)),
                          Value |-> TrimSpace(SubSeq(part, idx + 1, Len(part)))]>> \o rest
                  ELSE <<[Name |-> part, Value |-> s_empty]>> \o rest

parseEnumValues(body) == parseEnumParts(Split(body, s_comma))

\* parseEnums: one enum per match m of enumRe (m[1] body, m[2] name).
parseEnums(matches) ==
    [i \in 1..Len(matches) |->
        [Name |-> TrimSpace(matches[i][2]),
         Values |-> parseEnumValues(TrimSpace(matches[i][1]))]]

\* Parse (parser.go:17-29) after comment removal and whitespace
\* normalisation: the opaque structs come first (parseTypeDefs), then the
\* structs with a body, the enums and the functions, each in text order.
\* Header.TypeDefs is filled by Parse and read by no one; it is left out.
Parse(in) ==
    [Structs |-> parseOpaques(in.opaques) \o parseStructs(in.structs),
     Enums |-> parseEnums(in.enums),
     Functions |-> parseFunctions(in.funcs)]

---------------------------------------------------------------------------
\* generator/generator.go: naming.

Acronyms == {s_id, s_url, s_api, s_http, s_json, s_xml, s_sql, s_io, s_ip, s_tcp, s_udp}

\* One iteration of toGoName's loop over parts (generator.go:455-472): result
\* is the strings.Builder, part a non-empty segment.
toGoNamePart(result, part) ==
    LET r1 == result \o <<ToUpperCh(part[1])>>
        r2 == IF ToLower(part) \in Acronyms THEN ToUpper(part) ELSE r1
    IN  IF Len(part) > 1
        THEN IF Len(r2) > 0 /\ ~HasSuffix(r2, ToUpper(part))
             THEN r2 \o ToLower(SubSeq(part, 2, Len(part)))
             ELSE r2
        ELSE r1

RECURSIVE toGoNameParts(_, _)
toGoNameParts(result, parts) ==
    IF parts = <<>> THEN result
    ELSE toGoNameParts(toGoNamePart(result, Head(parts)), Tail(parts))

toGoName(n) ==
    IF n = s_empty THEN s_empty ELSE toGoNameParts(<<>>, FieldsFunc(n, {"_"}))

toLowerCamel(n) ==
    LET g == toGoName(n)
    IN  IF g = s_empty THEN s_empty ELSE <<ToLowerCh(g[1])>> \o Tail(g)

toGoEnumName(enumName, valueName) == toGoName(valueName)

---------------------------------------------------------------------------
\* generator/generator.go: type classification and mapping.

isStringType(t) == t.IsPointer /\ t.Name = s_char

isStringReturnType(t) == t.IsPointer /\ t.Name = s_char

needsFFIArg(t) ==
    IF t.IsPointer \/ t.Name = s_void THEN FALSE
    ELSE t.Name \in {s_int8_t, s_uint8_t, s_char, s_bool,
                     s_int16_t, s_uint16_t, s_short,
                     s_int32_t, s_uint32_t, s_int}

isOpaqueHandle(t, hdr) ==
    t.IsPointer /\ \E i \in DOMAIN hdr.Structs :
                      hdr.Structs[i].Name = t.Name /\ hdr.Structs[i].IsOpaque

isStructByValue(t, hdr) ==
    ~t.IsPointer /\ \E i \in DOMAIN hdr.Structs :
                       hdr.Structs[i].Name = t.Name /\ ~hdr.Structs[i].IsOpaque

\* cTypeToGoType without the opaque test in the loop over the structs: a
\* pointer to an opaque handle becomes a typed pointer too.
cTypeToGoTypeAnyStruct(t, hdr) ==
    IF t.IsPointer /\ (t.Name = s_char \/ t.Name = s_charStar) THEN s_string
    ELSE IF t.IsPointer
         THEN IF \E i \in DOMAIN hdr.Structs : hdr.Structs[i].Name = t.Name
              THEN s_star \o toGoName(t.Name)
              ELSE s_uintptr
    ELSE CASE t.Name = s_void -> s_empty
           [] t.Name = s_bool -> s_bool
           [] t.Name = s_char -> IF t.IsUnsigned THEN s_uint8 ELSE s_int8
           [] t.Name = s_short -> IF t.IsUnsigned THEN s_uint16 ELSE s_int16
           [] t.Name = s_int -> IF t.IsUnsigned THEN s_uint32 ELSE s_int32
           [] t.Name = s_long -> IF t.IsUnsigned THEN s_uint64 ELSE s_int64
           [] t.Name = s_int8_t -> s_int8
           [] t.Name = s_uint8_t -> s_uint8
           [] t.Name = s_int16_t -> s_int16
           [] t.Name = s_uint16_t -> s_uint16
           [] t.Name = s_int32_t -> s_int32
           [] t.Name = s_uint32_t -> s_uint32
           [] t.Name = s_int64_t -> s_int64
           [] t.Name = s_uint64_t -> s_uint64
           [] t.Name = s_size_t -> s_uint64
           [] t.Name = s_float -> s_float32
           [] t.Name = s_double -> s_float64
           [] OTHER -> toGoName(t.Name)

cTypeToGoType(t, hdr) ==
    IF t.IsPointer /\ (t.Name = s_char \/ t.Name = s_charStar) THEN s_string
    ELSE IF t.IsPointer
         THEN IF \E i \in DOMAIN hdr.Structs :
                    hdr.Structs[i].Name = t.Name /\ ~hdr.Structs[i].IsOpaque
              THEN s_star \o toGoName(t.Name)
              ELSE s_uintptr
    ELSE CASE t.Name = s_void -> s_empty
           [] t.Name = s_bool -> s_bool
           [] t.Name = s_char -> IF t.IsUnsigned THEN s_uint8 ELSE s_int8
           [] t.Name = s_short -> IF t.IsUnsigned THEN s_uint16 ELSE s_int16
           [] t.Name = s_int -> IF t.IsUnsigned THEN s_uint32 ELSE s_int32
           [] t.Name = s_long -> IF t.IsUnsigned THEN s_uint64 ELSE s_int64
           [] t.Name = s_int8_t -> s_int8
           [] t.Name = s_uint8_t -> s_uint8
           [] t.Name = s_int16_t -> s_int16
           [] t.Name = s_uint16_t -> s_uint16
           [] t.Name = s_int32_t -> s_int32
           [] t.Name = s_uint32_t -> s_uint32
           [] t.Name = s_int64_t -> s_int64
           [] t.Name = s_uint64_t -> s_uint64
           [] t.Name = s_size_t -> s_uint64
           [] t.Name = s_float -> s_float32
           [] t.Name = s_double -> s_float64
           [] OTHER -> toGoName(t.Name)

cTypeToFFIType(t, hdr) ==
    IF t.IsPointer THEN s_TypePointer
    ELSE CASE t.Name = s_void -> s_TypeVoid
           [] t.Name = s_bool -> s_TypeUint8
           [] t.Name = s_char -> IF t.IsUnsigned THEN s_TypeUint8 ELSE s_TypeSint8
           [] t.Name = s_short -> IF t.IsUnsigned THEN s_TypeUint16 ELSE s_TypeSint16
           [] t.Name = s_int -> IF t.IsUnsigned THEN s_TypeUint32 ELSE s_TypeSint32
           [] t.Name = s_long -> IF t.IsUnsigned THEN s_TypeUint64 ELSE s_TypeSint64
           [] t.Name = s_int8_t -> s_TypeSint8
           [] t.Name = s_uint8_t -> s_TypeUint8
           [] t.Name = s_int16_t -> s_TypeSint16
           [] t.Name = s_uint16_t -> s_TypeUint16
           [] t.Name = s_int32_t -> s_TypeSint32
           [] t.Name = s_uint32_t -> s_TypeUint32
           [] t.Name = s_int64_t -> s_TypeSint64
           [] t.Name = s_uint64_t -> s_TypeUint64
           [] t.Name = s_size_t -> s_TypeUint64
           [] t.Name = s_float -> s_TypeFloat
           [] t.Name = s_double -> s_TypeDouble
           [] OTHER -> IF \E i \in DOMAIN hdr.Structs :
                             hdr.Structs[i].Name = t.Name /\ ~hdr.Structs[i].IsOpaque
                       THEN s_ampFFIType \o toGoName(t.Name)
                       ELSE s_TypePointer

---------------------------------------------------------------------------
\* generator/generator.go: generateTypes.  types.go is the sequence of the
\* declarations written to the buffer, each with the strings formatted into it.

\* The record of a struct with a body: one line "<name> <type>" per field.
structFields(s, hdr) ==
    [i \in 1..Len(s.Fields) |->
        [name |-> toGoName(s.Fields[i].Name),
         type |-> cTypeToGoType(s.Fields[i].Type, hdr)]]

\* structFFIElements leaving out the fields whose descriptor is a pointer.
structFFIElementsScalarsOnly(s, hdr) ==
    LET keep == {i \in DOMAIN s.Fields : ~s.Fields[i].Type.IsPointer}
        nth(j) == CHOOSE i \in keep : Cardinality({m \in keep : m < i}) = j - 1
    IN  [j \in 1..Cardinality(keep) |-> cTypeToFFIType(s.Fields[nth(j)].Type, hdr)]

\* The arguments of ffi.NewType for a struct with a body: one per field.
structFFIElements(s, hdr) ==
    [i \in 1..Len(s.Fields) |-> cTypeToFFIType(s.Fields[i].Type, hdr)]

\* The body of the loop over header.Structs.
generateStruct(s, hdr) ==
    IF s.IsOpaque
    THEN <<[kind |-> "type", name |-> toGoName(s.Name), body |-> <<s_uintptr>>]>>
    ELSE <<[kind |-> "struct", name |-> toGoName(s.Name), body |-> structFields(s, hdr)],
           [kind |-> "var", name |-> s_FFIType \o toGoName(s.Name),
            body |-> structFFIElements(s, hdr)]>>

\* One line of an enum's const block: "<name> <type> = <value>",
\* "<name> <type> = iota" or the bare "<name>" (type and expr empty).
enumConstLine(e, i) ==
    LET v == e.Values[i]
    IN  IF v.Value # s_empty
        THEN [name |-> toGoEnumName(e.Name, v.Name), type |-> toGoName(e.Name),
              expr |-> v.Value]
        ELSE IF i = 1
        THEN [name |-> toGoEnumName(e.Name, v.Name), type |-> toGoName(e.Name),
              expr |-> s_iota]
        ELSE [name |-> toGoEnumName(e.Name, v.Name), type |-> s_empty, expr |-> s_empty]

\* The body of the loop over header.Enums.
generateEnum(e) ==
    <<[kind |-> "type", name |-> toGoName(e.Name), body |-> <<s_int32>>],
      [kind |-> "const", name |-> s_empty,
       body |-> [i \in 1..Len(e.Values) |-> enumConstLine(e, i)]]>>

generateTypes(hdr) ==
    [structs |-> [i \in 1..Len(hdr.Structs) |-> generateStruct(hdr.Structs[i], hdr)],
     enums |-> [i \in 1..Len(hdr.Enums) |-> generateEnum(hdr.Enums[i])]]

---------------------------------------------------------------------------
\* generator/generator.go: generateFunctions and generateFunctionWrapper.

funcVarName(fn) == toLowerCamel(fn.Name) \o s_Func

\* The Go name of a parameter: toLowerCamel of the C name, "arg" when empty.
paramName(p) ==
    LET n == toLowerCamel(p.Name) IN IF n = s_empty THEN s_arg ELSE n

\* prepArgs without the special case for no parameters: the joined (empty)
\* parameter descriptors are still formatted after the return descriptor.
prepArgsAlwaysJoined(fn, hdr) ==
    LET retFFI == cTypeToFFIType(fn.ReturnType, hdr)
        argFFIs == [i \in 1..Len(fn.Params) |-> cTypeToFFIType(fn.Params[i].Type, hdr)]
    IN  IF Len(argFFIs) = 0 THEN <<retFFI, s_empty>> ELSE <<retFFI>> \o argFFIs

\* The body of loadFuncs' loop: the arguments of lib.Prep after the symbol.
prepArgs(fn, hdr) ==
    LET retFFI == cTypeToFFIType(fn.ReturnType, hdr)
        argFFIs == [i \in 1..Len(fn.Params) |-> cTypeToFFIType(fn.Params[i].Type, hdr)]
    IN  IF Len(argFFIs) = 0 THEN <<retFFI>> ELSE <<retFFI>> \o argFFIs

generatePrep(fn, hdr) ==
    [funcVar |-> funcVarName(fn), symbol |-> fn.Name, args |-> prepArgs(fn, hdr)]

hasReturn(fn) == fn.ReturnType.Name # s_void

\* The wrapper's parameter list, "<name> <type>" each.
wrapperParams(fn, hdr) ==
    [i \in 1..Len(fn.Params) |->
        [name |-> paramName(fn.Params[i]),
         type |-> cTypeToGoType(fn.Params[i].Type, hdr)]]

\* "<p>Ptr, _ := unix.BytePtrFromString(<p>)" for each char pointer parameter.
RECURSIVE stringConversions(_)
stringConversions(params) ==
    IF params = <<>> THEN <<>>
    ELSE (IF isStringType(Head(params).Type)
          THEN <<[kind |-> "bytePtrFromString",
                  name |-> paramName(Head(params)) \o s_Ptr,
                  arg |-> paramName(Head(params))]>>
          ELSE <<>>) \o stringConversions(Tail(params))

\* "var result <type>" or "var resultPtr *byte".
resultSlot(fn, hdr) ==
    LET retGoType == cTypeToGoType(fn.ReturnType, hdr)
    IN  IF ~hasReturn(fn) THEN <<>>
        ELSE IF needsFFIArg(fn.ReturnType)
             THEN <<[kind |-> "var", name |-> s_result, arg |-> s_ffiArg]>>
        ELSE IF isStringReturnType(fn.ReturnType)
             THEN <<[kind |-> "var", name |-> s_resultPtr, arg |-> s_starByte]>>
        ELSE IF isOpaqueHandle(fn.ReturnType, hdr)
             THEN <<[kind |-> "var", name |-> s_result, arg |-> retGoType]>>
        ELSE <<[kind |-> "var", name |-> s_result, arg |-> retGoType]>>

\* paramCallArg passing the address of the string parameter itself instead
\* of the converted byte pointer.
paramCallArgStringItself(p, hdr) ==
    IF isStringType(p.Type) THEN s_unsafePointerAmp \o paramName(p) \o s_rparen
    ELSE IF isStructByValue(p.Type, hdr) THEN s_amp \o paramName(p)
    ELSE s_unsafePointerAmp \o paramName(p) \o s_rparen

\* The call argument of one parameter.
paramCallArg(p, hdr) ==
    IF isStringType(p.Type) THEN s_unsafePointerAmp \o paramName(p) \o s_Ptr \o s_rparen
    ELSE IF isStructByValue(p.Type, hdr) THEN s_amp \o paramName(p)
    ELSE s_unsafePointerAmp \o paramName(p) \o s_rparen

\* The arguments of <funcVar>.Call.
callArgs(fn, hdr) ==
    (IF hasReturn(fn)
     THEN IF isStringReturnType(fn.ReturnType)
          THEN <<s_unsafePointerAmp \o s_resultPtr \o s_rparen>>
          ELSE <<s_unsafePointerAmp \o s_result \o s_rparen>>
     ELSE <<s_nil>>)
    \o [i \in 1..Len(fn.Params) |-> paramCallArg(fn.Params[i], hdr)]

\* returnStmts converting the received pointer without testing it for nil.
returnStmtsNoNilTest(fn, hdr) ==
    LET retGoType == cTypeToGoType(fn.ReturnType, hdr)
    IN  IF ~hasReturn(fn) THEN <<>>
        ELSE IF needsFFIArg(fn.ReturnType)
             THEN IF fn.ReturnType.Name = s_bool
                     \/ (fn.ReturnType.Name = s_uint8 /\ ~fn.ReturnType.IsPointer)
                  THEN <<[kind |-> "return", name |-> s_empty, arg |-> s_resultBool]>>
                  ELSE <<[kind |-> "return", name |-> s_empty,
                          arg |-> retGoType \o s_parenResult]>>
        ELSE IF isStringReturnType(fn.ReturnType)
             THEN <<[kind |-> "return", name |-> s_empty, arg |-> s_bytePtrToString]>>
        ELSE <<[kind |-> "return", name |-> s_empty, arg |-> s_result]>>

\* The statements after the call.
returnStmts(fn, hdr) ==
    LET retGoType == cTypeToGoType(fn.ReturnType, hdr)
    IN  IF ~hasReturn(fn) THEN <<>>
        ELSE IF needsFFIArg(fn.ReturnType)
             THEN IF fn.ReturnType.Name = s_bool
                     \/ (fn.ReturnType.Name = s_uint8 /\ ~fn.ReturnType.IsPointer)
                  THEN <<[kind |-> "return", name |-> s_empty, arg |-> s_resultBool]>>
                  ELSE <<[kind |-> "return", name |-> s_empty,
                          arg |-> retGoType \o s_parenResult]>>
        ELSE IF isStringReturnType(fn.ReturnType)
             THEN <<[kind |-> "ifNilReturn", name |-> s_resultPtr, arg |-> s_emptyStringLit],
                    [kind |-> "return", name |-> s_empty, arg |-> s_bytePtrToString]>>
        ELSE <<[kind |-> "return", name |-> s_empty, arg |-> s_result]>>

generateFunctionWrapper(fn, hdr) ==
    [name |-> toGoName(fn.Name),
     params |-> wrapperParams(fn, hdr),
     results |-> IF hasReturn(fn) THEN <<cTypeToGoType(fn.ReturnType, hdr)>> ELSE <<>>,
     body |-> stringConversions(fn.Params)
                \o resultSlot(fn, hdr)
                \o <<[kind |-> "call", name |-> funcVarName(fn), arg |-> callArgs(fn, hdr)]>>
                \o returnStmts(fn, hdr)]

generateFunctions(hdr) ==
    [vars |-> [i \in 1..Len(hdr.Functions) |-> funcVarName(hdr.Functions[i])],
     loadFuncs |-> [i \in 1..Len(hdr.Functions) |-> generatePrep(hdr.Functions[i], hdr)],
     wrappers |-> [i \in 1..Len(hdr.Functions) |->
                      generateFunctionWrapper(hdr.Functions[i], hdr)]]

\* Names and bodies of testdata/calculator.h, and an enum beside them.
t_Calc == <<"C","a","l","c">>

t_CalcConfig == <<"C","a","l","c","C","o","n","f","i","g">>

t_CalcConfigBody == <<"\n"," ","d","o","u","b","l","e"," ","v","a","l","u","e",";","\n"," ","i","n","t","3","2","_","t"," ","p","r","e","c","i","s","i","o","n",";","\n"," ","u","i","n","t","8","_","t"," ","u","s","e","_","c","a","c","h","e",";","\n">>

t_Color == <<"C","o","l","o","r">>

t_ColorBody == <<"\n"," ","R","E","D",",","\n"," ","G","R","E","E","N"," ","="," ","5",",","\n"," ","B","L","U","E","\n">>

t_calc_free == <<"c","a","l","c","_","f","r","e","e">>

t_CalcParam == <<"C","a","l","c"," ","c","a","l","c">>

t_calc_op == <<"c","a","l","c","_","o","p">>

t_commaSpace == <<","," ">>

t_semiSpace == <<";"," ">>

t_spaceEqSpace == <<" ","="," ">>


\* Return types funcRe accepts as m[1].
RetTypeTexts ==
    {<<"v","o","i","d">>,
     <<"v","o","i","d","*">>,
     <<"b","o","o","l">>,
     <<"c","h","a","r">>,
     <<"u","n","s","i","g","n","e","d"," ","c","h","a","r">>,
     <<"s","h","o","r","t">>,
     <<"u","n","s","i","g","n","e","d"," ","s","h","o","r","t">>,
     <<"i","n","t">>,
     <<"u","n","s","i","g","n","e","d"," ","i","n","t">>,
     <<"l","o","n","g">>,
     <<"u","n","s","i","g","n","e","d"," ","l","o","n","g">>,
     <<"i","n","t","8","_","t">>,
     <<"u","i","n","t","8","_","t">>,
     <<"i","n","t","1","6","_","t">>,
     <<"u","i","n","t","1","6","_","t">>,
     <<"i","n","t","3","2","_","t">>,
     <<"u","i","n","t","3","2","_","t">>,
     <<"i","n","t","6","4","_","t">>,
     <<"u","i","n","t","6","4","_","t">>,
     <<"s","i","z","e","_","t">>,
     <<"f","l","o","a","t">>,
     <<"d","o","u","b","l","e">>,
     <<"c","h","a","r","*">>,
     <<"c","o","n","s","t"," ","c","h","a","r","*">>,
     <<"C","a","l","c">>,
     <<"C","a","l","c","C","o","n","f","i","g">>,
     <<"C","a","l","c","C","o","n","f","i","g","*">>,
     <<"C","o","l","o","r">>}


\* Comma-separated pieces of a parameter list (m[3] of funcRe).
ParamTexts ==
    {<<"C","a","l","c"," ","c","a","l","c">>,
     <<"d","o","u","b","l","e"," ","a">>,
     <<"c","h","a","r","*"," ","b","u","f">>,
     <<"c","o","n","s","t"," ","c","h","a","r"," ","*","s">>,
     <<"C","a","l","c","C","o","n","f","i","g"," ","c","o","n","f","i","g">>,
     <<"C","a","l","c","C","o","n","f","i","g","*"," ","c","f","g">>,
     <<"C","o","l","o","r"," ","c">>,
     <<"i","n","t">>,
     <<".",".",".">>}


\* Semicolon-terminated declarations of a struct body (m[1] of structRe).
FieldTexts ==
    {<<"d","o","u","b","l","e"," ","v","a","l","u","e">>,
     <<"c","o","n","s","t"," ","c","h","a","r"," ","*","l","a","b","e","l">>,
     <<"C","o","l","o","r"," ","m","o","d","e">>,
     <<"u","i","n","t","8","_","t"," ","u","s","e","_","c","a","c","h","e">>}


\* Member names of an enum body, by position.
MemberNames ==
    <<<<"R","E","D">>,
      <<"G","R","E","E","N">>,
      <<"B","L","U","E">>,
      <<"A","L","P","H","A">>,
      <<"B","E","T","A">>>>


\* The text after a member's name: nothing, or = and a value.
MemberValues ==
    {<<>>,
     <<"0">>,
     <<"5">>}


t_Shape == <<"S","h","a","p","e">>

t_Mode == <<"M","o","d","e">>

t_foo_t == <<"f","o","o","_","t">>
---------------------------------------------------------------------------
\* The conversion run of main: parser.Parse, then Generate's
\* generateTypes and generateFunctions.  generateLoader, which Generate calls
\* first, formats only the package and library names and is not modelled.

MaxParams == 2

MaxFields == 2

MaxMembers == 3

MaxNameLen == 4

SeqsUpTo(S, n) == UNION {[1..k -> S] : k \in 0..n}

NoHeader == [Structs |-> <<>>, Enums |-> <<>>, Functions |-> <<>>]

NoFiles ==
    [types |-> [structs |-> <<>>, enums |-> <<>>],
     functions |-> [vars |-> <<>>, loadFuncs |-> <<>>, wrappers |-> <<>>]]

\* Generate's error result: nil, or the error of the step that failed.
NilError == "nil"

\* generateTypes and generateFunctions end in `return buf.String(), nil` and
\* have no other return: their error result is nil for every header.
generateTypesErr(hdr) == NilError

generateFunctionsErr(hdr) == NilError

NoCType == CType(s_empty, FALSE, FALSE, FALSE)

NoMapped == [goType |-> s_empty, ffiType |-> s_empty]

\* Parameter lists as written between the parentheses: `void`, nothing, or
\* up to MaxParams pieces separated by ", ".
ParamListTexts ==
    {s_void} \cup {Join(ps, t_commaSpace) : ps \in SeqsUpTo(ParamTexts, MaxParams)}

\* Struct bodies: up to MaxFields declarations, each followed by "; ".
RECURSIVE Terminated(_, _)
Terminated(lines, end) ==
    IF lines = <<>> THEN <<>> ELSE Head(lines) \o end \o Terminated(Tail(lines), end)

StructBodyTexts ==
    {<<" ">> \o Terminated(fs, t_semiSpace) : fs \in SeqsUpTo(FieldTexts, MaxFields)}

\* Enum bodies: 1..MaxMembers members, each with or without "= value".
MemberText(i, v) ==
    IF v = s_empty THEN MemberNames[i] ELSE MemberNames[i] \o t_spaceEqSpace \o v

EnumBodyTexts ==
    {Join([i \in 1..Len(vs) |-> MemberText(i, vs[i])], t_commaSpace) :
        vs \in SeqsUpTo(MemberValues, MaxMembers) \ {<<>>}}

CalcFreeMatch == <<s_void, t_calc_free, t_CalcParam>>

\* The typedefs of testdata/calculator.h with an enum beside them, and one
\* function declaration drawn from the bounded texts before calc_free.
InitFunctions ==
    /\ \E ret \in RetTypeTexts, params \in ParamListTexts :
          input = [opaques |-> <<<<t_Calc, t_Calc>>>>,
                   structs |-> <<<<t_CalcConfigBody, t_CalcConfig>>>>,
                   enums |-> <<<<t_ColorBody, t_Color>>>>,
                   funcs |-> <<<<ret, t_calc_op, params>>, CalcFreeMatch>>]
    /\ header = NoHeader
    /\ files = NoFiles
    /\ err = NilError
    /\ pc = "parse"
    /\ ct = NoCType
    /\ mapped = NoMapped
    /\ name = s_empty
    /\ goName = s_empty

\* An opaque handle, one struct and one enum with bodies drawn from the
\* bounded texts, and calc_free.
InitTypes ==
    /\ \E sb \in StructBodyTexts, eb \in EnumBodyTexts :
          input = [opaques |-> <<<<t_Calc, t_Calc>>>>,
                   structs |-> <<<<sb, t_Shape>>>>,
                   enums |-> <<<<eb, t_Color>>>>,
                   funcs |-> <<CalcFreeMatch>>]
    /\ header = NoHeader
    /\ files = NoFiles
    /\ err = NilError
    /\ pc = "parse"
    /\ ct = NoCType
    /\ mapped = NoMapped
    /\ name = s_empty
    /\ goName = s_empty

ParseHeader ==
    /\ pc = "parse"
    /\ header' = Parse(input)
    /\ pc' = "types"
    /\ UNCHANGED <<input, files, err, ct, mapped, name, goName>>

GenerateTypes ==
    /\ pc = "types"
    /\ files' = [files EXCEPT !.types = generateTypes(header)]
    /\ err' = generateTypesErr(header)
    /\ pc' = IF err' = NilError THEN "functions" ELSE "done"
    /\ UNCHANGED <<input, header, ct, mapped, name, goName>>

GenerateFunctions ==
    /\ pc = "functions"
    /\ files' = [files EXCEPT !.functions = generateFunctions(header)]
    /\ err' = generateFunctionsErr(header)
    /\ pc' = "done"
    /\ UNCHANGED <<input, header, ct, mapped, name, goName>>

Next == ParseHeader \/ GenerateTypes \/ GenerateFunctions

Spec == InitFunctions /\ [][Next]_vars

SpecTypes == InitTypes /\ [][Next]_vars

---------------------------------------------------------------------------
\* The type mapper applied to one C type under a header's known names.

PrimitiveNames ==
    {s_void, s_bool, s_char, s_short, s_int, s_long, s_int8_t, s_uint8_t,
     s_int16_t, s_uint16_t, s_int32_t, s_uint32_t, s_int64_t, s_uint64_t,
     s_size_t, s_float, s_double}

OpaqueStruct(n) == [Name |-> n, Fields |-> <<>>, IsOpaque |-> TRUE]

BodyStruct(n) ==
    [Name |-> n,
     Fields |-> <<[Name |-> s_id, Type |-> CType(s_int, FALSE, FALSE, FALSE)]>>,
     IsOpaque |-> FALSE]

EnumOf(n) == [Name |-> n, Values |-> <<[Name |-> MemberNames[1], Value |-> s_empty]>>]

\* Headers Parse can return: calculator.h's names with an enum; no typedefs
\* at all; an opaque handle, a struct and an enum named like primitives.
MapHeaders ==
    {[Structs |-> <<OpaqueStruct(t_Calc), BodyStruct(t_CalcConfig)>>,
      Enums |-> <<EnumOf(t_Color)>>, Functions |-> <<>>],
     NoHeader,
     [Structs |-> <<OpaqueStruct(s_int32_t), BodyStruct(s_size_t)>>,
      Enums |-> <<EnumOf(t_Mode)>>, Functions |-> <<>>]}

MapNames == PrimitiveNames \cup {s_charStar, t_Calc, t_CalcConfig, t_Color, t_Mode, t_foo_t}

InitMap ==
    /\ \E n \in MapNames, ptr \in BOOLEAN, uns \in BOOLEAN : ct = CType(n, ptr, FALSE, uns)
    /\ header \in MapHeaders
    /\ input = <<>>
    /\ files = NoFiles
    /\ err = NilError
    /\ pc = "map"
    /\ mapped = NoMapped
    /\ name = s_empty
    /\ goName = s_empty

MapType ==
    /\ pc = "map"
    /\ mapped' = [goType |-> cTypeToGoType(ct, header),
                  ffiType |-> cTypeToFFIType(ct, header)]
    /\ pc' = "mapped"
    /\ UNCHANGED <<input, header, files, err, ct, name, goName>>

NextMap == MapType

SpecMap == InitMap /\ [][NextMap]_vars

---------------------------------------------------------------------------
\* toGoName applied to one C identifier.

NameAlphabet == {"i", "d", "a", "D", "_"}

InitName ==
    /\ name \in SeqsUpTo(NameAlphabet, MaxNameLen)
    /\ goName = s_empty
    /\ input = <<>>
    /\ header = NoHeader
    /\ files = NoFiles
    /\ err = NilError
    /\ pc = "name"
    /\ ct = NoCType
    /\ mapped = NoMapped

ConvertName ==
    /\ pc = "name"
    /\ goName' = toGoName(name)
    /\ pc' = "named"
    /\ UNCHANGED <<input, header, files, err, ct, mapped, name>>

NextName == ConvertName

SpecName == InitName /\ [][NextName]_vars

---------------------------------------------------------------------------
\* Properties of the function bindings (checked under Spec).

\* The index of the Call statement in a wrapper's body.
CallIndex(w) == CHOOSE i \in DOMAIN w.body : w.body[i].kind = "call"

CallArgsOf(w) == w.body[CallIndex(w)].arg

AddrBoxed(n) == s_unsafePointerAmp \o n \o s_rparen

KnownBodyStruct(n) ==
    \E i \in DOMAIN header.Structs : header.Structs[i].Name = n /\ ~header.Structs[i].IsOpaque

KnownOpaqueStruct(n) ==
    \E i \in DOMAIN header.Structs : header.Structs[i].Name = n /\ header.Structs[i].IsOpaque

IsCharPointer(t) == t.IsPointer /\ t.Name = s_char

\* C1: for every function with n parameters, lib.Prep lists exactly 1+n
\* descriptors (the return descriptor, then each parameter's descriptor in
\* declared order) and Call lists exactly 1+n arguments (the result slot or
\* nil, then one argument per parameter in declared order); a parameter list
\* written `void` or left empty gives n = 0 and no parameter descriptor.
C1_PrepAndCallAligned ==
    pc = "done" =>
        \A k \in DOMAIN header.Functions :
            LET fn == header.Functions[k]
                n == Len(fn.Params)
                prep == files.functions.loadFuncs[k].args
                call == CallArgsOf(files.functions.wrappers[k])
            IN  /\ Len(prep) = 1 + n
                /\ prep[1] = cTypeToFFIType(fn.ReturnType, header)
                /\ \A i \in 1..n : prep[i + 1] = cTypeToFFIType(fn.Params[i].Type, header)
                /\ Len(call) = 1 + n
                /\ call[1] \in {s_nil, AddrBoxed(s_result), AddrBoxed(s_resultPtr)}
                /\ \A i \in 1..n :
                      LET p == paramName(fn.Params[i])
                      IN  call[i + 1] \in {AddrBoxed(p), AddrBoxed(p \o s_Ptr), s_amp \o p}
                /\ (TrimSpace(input.funcs[k][3]) \in {s_void, s_empty}
                        => n = 0 /\ prep = <<cTypeToFFIType(fn.ReturnType, header)>>
                                 /\ Len(call) = 1)

\* A function whose two parameters have different descriptors and different
\* names has been registered and wrapped, beside the one-parameter calc_free.
C1_Witness ==
    /\ pc = "done"
    /\ Len(header.Functions[1].Params) = 2
    /\ files.functions.loadFuncs[1].args[2] # files.functions.loadFuncs[1].args[3]
    /\ header.Functions[1].Params[1].Name # header.Functions[1].Params[2].Name
    /\ Len(header.Functions[2].Params) = 1

\* C2: exactly one marshaling branch per parameter: a char pointer is
\* converted to a byte pointer local before the Call and the call argument
\* is that local's address; a non-pointer known struct with a body is passed
\* as the bare &param; every other parameter as unsafe.Pointer(&param).
C2_OneMarshalingBranch ==
    pc = "done" =>
        \A k \in DOMAIN header.Functions :
            LET fn == header.Functions[k]
                w == files.functions.wrappers[k]
                ci == CallIndex(w)
                conv == {j \in DOMAIN w.body : w.body[j].kind = "bytePtrFromString"}
                strs == {i \in DOMAIN fn.Params : IsCharPointer(fn.Params[i].Type)}
            IN  /\ \A j \in conv : j < ci
                /\ Cardinality(conv) = Cardinality(strs)
                /\ \A i \in DOMAIN fn.Params :
                      LET t == fn.Params[i].Type
                          p == paramName(fn.Params[i])
                          a == w.body[ci].arg[i + 1]
                      IN  IF IsCharPointer(t)
                          THEN /\ a = AddrBoxed(p \o s_Ptr)
                               /\ a # AddrBoxed(p)
                               /\ \E j \in conv : /\ w.body[j].name = p \o s_Ptr
                                                  /\ w.body[j].arg = p
                          ELSE IF ~t.IsPointer /\ KnownBodyStruct(t.Name)
                          THEN a = s_amp \o p
                          ELSE a = AddrBoxed(p)

\* A wrapper with a char pointer parameter and a by-value struct parameter.
C2_Witness ==
    /\ pc = "done"
    /\ \E i, j \in DOMAIN header.Functions[1].Params :
          /\ IsCharPointer(header.Functions[1].Params[i].Type)
          /\ ~header.Functions[1].Params[j].Type.IsPointer
          /\ KnownBodyStruct(header.Functions[1].Params[j].Type.Name)
    /\ Len(files.functions.wrappers[1].body) > 1

\* The Go types narrower than a machine word: bool, the 8/16/32-bit integers,
\* and every type types.go declares as int32 (an enum's type).
NarrowGoType(t) ==
    \/ t \in {s_bool, s_int8, s_uint8, s_int16, s_uint16, s_int32, s_uint32}
    \/ \E e \in DOMAIN files.types.enums :
          /\ files.types.enums[e][1].name = t
          /\ files.types.enums[e][1].body = <<s_int32>>

VarStmts(w) == {j \in DOMAIN w.body : w.body[j].kind = "var"}

\* The wrapper receives the result in a word-sized ffi.Arg and narrows it.
UsesWordSlot(w, goType) ==
    /\ \E j \in VarStmts(w) :
          j < CallIndex(w) /\ w.body[j].name = s_result /\ w.body[j].arg = s_ffiArg
    /\ \A j \in VarStmts(w) : ~NarrowGoType(w.body[j].arg)
    /\ CallArgsOf(w)[1] = AddrBoxed(s_result)
    /\ w.body[Len(w.body)].kind = "return"
    /\ w.body[Len(w.body)].arg \in {s_resultBool, goType \o s_parenResult}

\* C3: every function whose non-pointer return type maps to a narrow
\* integral or boolean Go type (enum types included) declares an ffi.Arg
\* result slot, passes its address to Call and returns a narrowing
\* conversion; the slot never has the narrow type.
C3_NarrowReturnsUseWordSlot ==
    pc = "done" =>
        \A k \in DOMAIN header.Functions :
            LET fn == header.Functions[k]
                goType == cTypeToGoType(fn.ReturnType, header)
            IN  (~fn.ReturnType.IsPointer /\ NarrowGoType(goType))
                    => UsesWordSlot(files.functions.wrappers[k], goType)

\* C3 without the enum types: the narrow primitive returns alone.
C3_NarrowPrimitiveReturnsUseWordSlot ==
    pc = "done" =>
        \A k \in DOMAIN header.Functions :
            LET fn == header.Functions[k]
                goType == cTypeToGoType(fn.ReturnType, header)
            IN  (~fn.ReturnType.IsPointer
                    /\ goType \in {s_bool, s_int8, s_uint8, s_int16, s_uint16, s_int32, s_uint32})
                    => UsesWordSlot(files.functions.wrappers[k], goType)

\* A wrapper omits the result slot: no var statement, nil first, no result.
OmitsResultSlot(w) ==
    /\ VarStmts(w) = {}
    /\ CallArgsOf(w)[1] = s_nil
    /\ w.results = <<>>
    /\ \A j \in DOMAIN w.body : w.body[j].kind # "return"

\* A wrapper receives an address-sized result and returns it.
HasAddressSlot(w) ==
    /\ \E j \in VarStmts(w) :
          /\ j < CallIndex(w)
          /\ w.body[j].name \in {s_result, s_resultPtr}
          /\ CallArgsOf(w)[1] = AddrBoxed(w.body[j].name)
    /\ Len(w.results) = 1
    /\ w.body[Len(w.body)].kind = "return"

\* C4: a wrapper omits the result slot, passes nil first and returns nothing
\* exactly when the return type is `void` without the pointer flag, which is
\* exactly when the registered return descriptor is the void descriptor; a
\* function returning any pointer, `void*` included, has an address-sized
\* result slot whose address goes to Call and whose value is returned.
C4_NoSlotIffVoidReturn ==
    pc = "done" =>
        \A k \in DOMAIN header.Functions :
            LET fn == header.Functions[k]
                w == files.functions.wrappers[k]
                isVoid == fn.ReturnType.Name = s_void /\ ~fn.ReturnType.IsPointer
            IN  /\ OmitsResultSlot(w) <=> isVoid
                /\ isVoid <=> files.functions.loadFuncs[k].args[1] = s_TypeVoid
                /\ fn.ReturnType.IsPointer => HasAddressSlot(w)

\* C4 for every return type but `void*`.
C4_ExceptVoidPointer ==
    pc = "done" =>
        \A k \in DOMAIN header.Functions :
            LET fn == header.Functions[k]
                w == files.functions.wrappers[k]
                isVoid == fn.ReturnType.Name = s_void /\ ~fn.ReturnType.IsPointer
            IN  ~(fn.ReturnType.Name = s_void /\ fn.ReturnType.IsPointer)
                => /\ OmitsResultSlot(w) <=> isVoid
                   /\ isVoid <=> files.functions.loadFuncs[k].args[1] = s_TypeVoid
                   /\ fn.ReturnType.IsPointer => HasAddressSlot(w)

t_BytePtrToString == <<"B","y","t","e","P","t","r","T","o","S","t","r","i","n","g">>

t_charPtrText == <<"c","h","a","r","*">>

t_constCharPtrText == <<"c","o","n","s","t"," ","c","h","a","r","*">>

\* A statement converts the received byte pointer to a string.
ConvertsResultPtr(stmt) ==
    stmt.kind = "return" /\ Contains(stmt.arg, t_BytePtrToString)

\* C5: a function returning `char*` or `const char*` receives a raw byte
\* pointer, and the nil test (which returns the empty string) precedes every
\* conversion of that pointer to a string.
C5_NilTestBeforeStringConversion ==
    pc = "done" =>
        \A k \in DOMAIN header.Functions :
            LET fn == header.Functions[k]
                w == files.functions.wrappers[k]
                ci == CallIndex(w)
            IN  (TrimSpace(input.funcs[k][1]) \in {t_charPtrText, t_constCharPtrText}
                    \/ IsCharPointer(fn.ReturnType))
                => /\ IsCharPointer(fn.ReturnType)
                   /\ w.results = <<s_string>>
                   /\ \E j \in VarStmts(w) :
                         /\ j < ci
                         /\ w.body[j].name = s_resultPtr
                         /\ w.body[j].arg = s_starByte
                   /\ w.body[ci].arg[1] = AddrBoxed(s_resultPtr)
                   /\ \E j \in DOMAIN w.body :
                         /\ j > ci
                         /\ w.body[j].kind = "ifNilReturn"
                         /\ w.body[j].name = s_resultPtr
                         /\ w.body[j].arg = s_emptyStringLit
                         /\ \A m \in DOMAIN w.body : ConvertsResultPtr(w.body[m]) => j < m
                   /\ \E m \in DOMAIN w.body : ConvertsResultPtr(w.body[m])

\* The wrapper of a function declared `const char*` has been generated.
C5_Witness ==
    /\ pc = "done"
    /\ TrimSpace(input.funcs[1][1]) = t_constCharPtrText
    /\ \E m \in DOMAIN files.functions.wrappers[1].body :
          ConvertsResultPtr(files.functions.wrappers[1].body[m])

---------------------------------------------------------------------------
\* Properties of the emitted types (checked under SpecTypes).

\* C6: for every struct with a body the emitted record and the emitted
\* FFIType<Name> descriptor have as many entries as the struct has declared
\* fields, and the i-th of each is derived from the i-th declared field; an
\* opaque struct emits a nominal handle type and neither record nor descriptor.
C6_RecordAndDescriptorAligned ==
    pc = "done" =>
        \A k \in DOMAIN header.Structs :
            LET s == header.Structs[k]
                out == files.types.structs[k]
            IN  IF s.IsOpaque
                THEN /\ Len(out) = 1
                     /\ out[1].kind = "type"
                     /\ out[1].name = toGoName(s.Name)
                     /\ out[1].body = <<s_uintptr>>
                ELSE /\ Len(out) = 2
                     /\ out[1].kind = "struct" /\ out[1].name = toGoName(s.Name)
                     /\ out[2].kind = "var" /\ out[2].name = s_FFIType \o toGoName(s.Name)
                     /\ Len(out[1].body) = Len(s.Fields)
                     /\ Len(out[2].body) = Len(out[1].body)
                     /\ \A i \in DOMAIN s.Fields :
                           /\ out[1].body[i].name = toGoName(s.Fields[i].Name)
                           /\ out[1].body[i].type = cTypeToGoType(s.Fields[i].Type, header)
                           /\ out[2].body[i] = cTypeToFFIType(s.Fields[i].Type, header)

\* A struct with two fields of different types has been emitted after the
\* opaque handle.
C6_Witness ==
    /\ pc = "done"
    /\ header.Structs[1].IsOpaque
    /\ ~header.Structs[2].IsOpaque
    /\ Len(header.Structs[2].Fields) = 2
    /\ files.types.structs[2][2].body[1] # files.types.structs[2][2].body[2]
    /\ files.types.structs[2][1].body[1].type # files.types.structs[2][1].body[2].type

\* A decimal literal's value.
DigitValue(c) == CHOOSE d \in 0..9 : <<"0","1","2","3","4","5","6","7","8","9">>[d + 1] = c

RECURSIVE DecimalValue(_)
DecimalValue(s) ==
    IF s = <<>> THEN 0
    ELSE 10 * DecimalValue(SubSeq(s, 1, Len(s) - 1)) + DigitValue(s[Len(s)])

\* Go's const block: a line without an expression repeats the expression of
\* the nearest line before it that has one, and iota is the line's index.
RECURSIVE ConstExprOfLine(_, _)
ConstExprOfLine(lines, i) ==
    IF lines[i].expr # s_empty \/ i = 1 THEN lines[i].expr
    ELSE ConstExprOfLine(lines, i - 1)

GoConstValue(lines, i) ==
    LET e == ConstExprOfLine(lines, i)
    IN  IF e = s_iota THEN i - 1 ELSE DecimalValue(e)

\* The carry-forward value of member i: its explicit value, else the
\* previous member's value + 1, else 0 for the first member.
RECURSIVE CarryForwardValue(_, _)
CarryForwardValue(values, i) ==
    IF values[i].Value # s_empty THEN DecimalValue(values[i].Value)
    ELSE IF i = 1 THEN 0
    ELSE CarryForwardValue(values, i - 1) + 1

\* C7: for every enum, the value Go gives each emitted constant equals the
\* carry-forward value of the member (explicit value, else previous + 1,
\* else 0): [A, B=5, C] yields A=0, B=5, C=6.
C7_EnumConstantsCarryForward ==
    pc = "done" =>
        \A k \in DOMAIN header.Enums :
            LET e == header.Enums[k]
                lines == files.types.enums[k][2].body
            IN  /\ Len(lines) = Len(e.Values)
                /\ \A i \in DOMAIN e.Values :
                      GoConstValue(lines, i) = CarryForwardValue(e.Values, i)

\* C7 for the enums in which no unset member follows an explicit value.
C7_WithoutUnsetAfterExplicit ==
    pc = "done" =>
        \A k \in DOMAIN header.Enums :
            LET e == header.Enums[k]
                lines == files.types.enums[k][2].body
            IN  (\A i, j \in DOMAIN e.Values :
                    i < j /\ e.Values[i].Value # s_empty => e.Values[j].Value # s_empty)
                => /\ Len(lines) = Len(e.Values)
                   /\ \A i \in DOMAIN e.Values :
                         GoConstValue(lines, i) = CarryForwardValue(e.Values, i)

---------------------------------------------------------------------------
\* Properties of the type mapper (checked under SpecMap).

KnownEnum(n) == \E i \in DOMAIN header.Enums : header.Enums[i].Name = n

\* Width in bits and class of a Go scalar type.
GoBuiltinShape(t) ==
    CASE t = s_bool -> [bits |-> 8, class |-> "unsigned"]
      [] t = s_int8 -> [bits |-> 8, class |-> "signed"]
      [] t = s_uint8 -> [bits |-> 8, class |-> "unsigned"]
      [] t = s_int16 -> [bits |-> 16, class |-> "signed"]
      [] t = s_uint16 -> [bits |-> 16, class |-> "unsigned"]
      [] t = s_int32 -> [bits |-> 32, class |-> "signed"]
      [] t = s_uint32 -> [bits |-> 32, class |-> "unsigned"]
      [] t = s_int64 -> [bits |-> 64, class |-> "signed"]
      [] t = s_uint64 -> [bits |-> 64, class |-> "unsigned"]
      [] t = s_float32 -> [bits |-> 32, class |-> "float"]
      [] t = s_float64 -> [bits |-> 64, class |-> "float"]
      [] OTHER -> [bits |-> 0, class |-> "none"]

\* The type declarations generateTypes emits for the header's enums.
EnumTypeDecls == {generateEnum(header.Enums[i])[1] : i \in DOMAIN header.Enums}

\* An enum's Go type has the shape of the type it is declared as (int32).
GoScalarShape(t) ==
    IF GoBuiltinShape(t).class # "none" THEN GoBuiltinShape(t)
    ELSE IF \E d \in EnumTypeDecls : d.name = t
    THEN GoBuiltinShape((CHOOSE d \in EnumTypeDecls : d.name = t).body[1])
    ELSE [bits |-> 0, class |-> "none"]

\* Width in bits and class of a foreign descriptor.
FFIShape(d) ==
    CASE d = s_TypeUint8 -> [bits |-> 8, class |-> "unsigned"]
      [] d = s_TypeSint8 -> [bits |-> 8, class |-> "signed"]
      [] d = s_TypeUint16 -> [bits |-> 16, class |-> "unsigned"]
      [] d = s_TypeSint16 -> [bits |-> 16, class |-> "signed"]
      [] d = s_TypeUint32 -> [bits |-> 32, class |-> "unsigned"]
      [] d = s_TypeSint32 -> [bits |-> 32, class |-> "signed"]
      [] d = s_TypeUint64 -> [bits |-> 64, class |-> "unsigned"]
      [] d = s_TypeSint64 -> [bits |-> 64, class |-> "signed"]
      [] d = s_TypeFloat -> [bits |-> 32, class |-> "float"]
      [] d = s_TypeDouble -> [bits |-> 64, class |-> "float"]
      [] d = s_TypePointer -> [bits |-> 64, class |-> "pointer"]
      [] d = s_TypeVoid -> [bits |-> 0, class |-> "void"]
      [] OTHER -> [bits |-> 0, class |-> "aggregate"]

\* C8: for every non-pointer type of a scalar category (each primitive of
\* the fixed table with and without the unsigned flag, and every name of a
\* known enum) the Go type and the foreign descriptor have the same width
\* and the same signedness or kind.
C8_ScalarTypeAndDescriptorAgree ==
    (pc = "mapped" /\ ~ct.IsPointer
        /\ (ct.Name \in PrimitiveNames \ {s_void}
                \/ (KnownEnum(ct.Name) /\ ~KnownBodyStruct(ct.Name)
                        /\ ~KnownOpaqueStruct(ct.Name))))
    => /\ GoScalarShape(mapped.goType).class # "none"
       /\ GoScalarShape(mapped.goType) = FFIShape(mapped.ffiType)

\* C8 for the primitives of the fixed table alone.
C8_PrimitivesAgree ==
    (pc = "mapped" /\ ~ct.IsPointer /\ ct.Name \in PrimitiveNames \ {s_void})
    => /\ GoScalarShape(mapped.goType).class # "none"
       /\ GoScalarShape(mapped.goType) = FFIShape(mapped.ffiType)

\* C9: for every pointer-flagged type the descriptor is the opaque address
\* descriptor and the Go type follows the first matching rule: `char` maps
\* to string; else a known opaque struct maps to its nominal handle type
\* (also when named like a primitive); else, a known struct with a body
\* included, it maps to uintptr.
C9_PointerMapping ==
    (pc = "mapped" /\ ct.IsPointer)
    => /\ mapped.ffiType = s_TypePointer
       /\ mapped.goType =
             IF ct.Name = s_char THEN s_string
             ELSE IF KnownOpaqueStruct(ct.Name) THEN toGoName(ct.Name)
             ELSE s_uintptr

\* C9 as the mapper decides it: for every pointer-flagged type the
\* descriptor is the opaque address descriptor; `char` (or the name `char *`)
\* maps to string; else a known struct with a body maps to the typed pointer
\* `*` + the struct's Go name; else, a known opaque struct included (also
\* when named like a primitive), it maps to uintptr.
C9_PointerMappingOfMapper ==
    (pc = "mapped" /\ ct.IsPointer)
    => /\ mapped.ffiType = s_TypePointer
       /\ mapped.goType =
             IF ct.Name = s_char \/ ct.Name = s_charStar THEN s_string
             ELSE IF KnownBodyStruct(ct.Name) THEN s_star \o toGoName(ct.Name)
             ELSE s_uintptr

\* A pointer to an opaque handle named like a primitive alias has been
\* mapped, under a header that also has a struct with a body.
C9_Witness ==
    /\ pc = "mapped"
    /\ ct.IsPointer
    /\ ct.Name \in PrimitiveNames
    /\ KnownOpaqueStruct(ct.Name)
    /\ \E i \in DOMAIN header.Structs : ~header.Structs[i].IsOpaque
    /\ mapped.goType = s_uintptr

---------------------------------------------------------------------------
\* Properties of the naming rule (checked under SpecName).

\* The image of one segment: an acronym fully upper-cased, any other segment
\* with its first character upper-cased and the rest lower-cased.
SegmentImage(seg) ==
    IF ToLower(seg) \in Acronyms THEN ToUpper(seg)
    ELSE <<ToUpperCh(seg[1])>> \o ToLower(Tail(seg))

RECURSIVE ConcatImages(_)
ConcatImages(segs) ==
    IF segs = <<>> THEN <<>> ELSE SegmentImage(Head(segs)) \o ConcatImages(Tail(segs))

\* C10: toGoName(name) is the concatenation, over the non-empty
\* `_`-separated segments of name in order, of each segment's image; every
\* segment contributes to the result.
C10_GoNameConcatenatesSegments ==
    pc = "named" => goName = ConcatImages(FieldsFunc(name, {"_"}))

\* C10 for the names of a single segment.
C10_SingleSegment ==
    (pc = "named" /\ Len(FieldsFunc(name, {"_"})) <= 1)
    => goName = ConcatImages(FieldsFunc(name, {"_"}))

---------------------------------------------------------------------------
\* Conversion runs over headers with declarations the parser accepts and
\* the mapper has no table entry for: unknown type names, `...`, unnamed
\* parameters, and C names that differ only in case.

t_Calcconfig == <<"C","a","l","c","c","o","n","f","i","g">>

t_ValueField == <<" ","d","o","u","b","l","e"," ","v","a","l","u","e",";"," ">>

\* Return types of the declared function.
DeclRetTexts ==
    {<<"i","n","t">>,
     <<"v","o","i","d">>,
     <<"c","h","a","r","*">>,
     <<"f","o","o","_","t">>}

\* Parameters of the declared function: unnamed ones, names the wrapper also
\* uses for its locals, an unknown type and `...`.
DeclParamTexts ==
    {<<"i","n","t">>,
     <<"c","h","a","r","*">>,
     <<"i","n","t"," ","r","e","s","u","l","t">>,
     <<"c","h","a","r","*"," ","b","u","f">>,
     <<"i","n","t"," ","b","u","f","_","p","t","r">>,
     <<"d","o","u","b","l","e"," ","a">>,
     <<"f","o","o","_","t"," ","x">>,
     <<".",".",".">>}

t_ShapeInner == <<" ","S","h","a","p","e"," ","i","n","n","e","r",";"," ">>

\* Struct bodies of one field.
DeclBodyTexts ==
    {t_ValueField,
     <<" ","f","o","o","_","t"," ","v","a","l","u","e",";"," ">>,
     <<" ","c","o","n","s","t"," ","c","h","a","r"," ","*","l","a","b","e","l",";"," ">>,
     <<" ","C","o","l","o","r"," ","m","o","d","e",";"," ">>,
     <<" ","C","a","l","c"," ","c","a","l","c",";"," ">>,
     <<" ","v","o","i","d"," ","*","d","a","t","a",";"," ">>,
     <<" ","S","h","a","p","e"," ","*","n","e","x","t",";"," ">>,
     t_ShapeInner}

DeclStructNames == {t_CalcConfig, t_Calcconfig, t_Shape}

DeclMemberNames ==
    {<<"R","E","D">>,
     <<"R","e","d">>,
     <<"B","L","U","E">>,
     <<"C","O","L","O","R">>}

\* A parameter list a C compiler accepts: `...` last and after a named or
\* unnamed parameter, and no parameter name written twice.
ValidParamList(ps) ==
    LET P == parseParams(Join(ps, t_commaSpace)).Params
    IN  /\ \A i \in 1..Len(ps) : ps[i] = s_ellipsis => (i = Len(ps) /\ i > 1)
        /\ \A i, j \in 1..Len(P) :
              (i < j /\ P[i].Name # s_empty) => P[i].Name # P[j].Name

\* calculator.h's typedefs and one function declaration.
InitDeclFunctions ==
    \E ret \in DeclRetTexts, ps \in SeqsUpTo(DeclParamTexts, MaxParams) :
       /\ ValidParamList(ps)
       /\ input = [opaques |-> <<<<t_Calc, t_Calc>>>>,
                   structs |-> <<<<t_CalcConfigBody, t_CalcConfig>>>>,
                   enums |-> <<<<t_ColorBody, t_Color>>>>,
                   funcs |-> <<<<ret, t_calc_op, Join(ps, t_commaSpace)>>>>]

\* Two structs and two enums whose C names are pairwise different, and
\* calc_free.  The second struct has one field, which may name the first
\* struct but not the struct it is in.
InitDeclTypes ==
    \E n1, n2 \in DeclStructNames, b \in DeclBodyTexts,
       m1, m2, m3 \in DeclMemberNames :
       /\ n1 # n2
       /\ b = t_ShapeInner => n2 # t_Shape
       /\ Cardinality({m1, m2, m3}) = 3
       /\ input = [opaques |-> <<<<t_Calc, t_Calc>>>>,
                   structs |-> <<<<t_ValueField, n1>>, <<b, n2>>>>,
                   enums |-> <<<<m1 \o t_commaSpace \o m2, t_Color>>,
                               <<m3, t_Mode>>>>,
                   funcs |-> <<CalcFreeMatch>>]

InitDecls ==
    /\ (InitDeclFunctions \/ InitDeclTypes)
    /\ header = NoHeader
    /\ files = NoFiles
    /\ err = NilError
    /\ pc = "parse"
    /\ ct = NoCType
    /\ mapped = NoMapped
    /\ name = s_empty
    /\ goName = s_empty

SpecDecls == InitDecls /\ [][Next]_vars

---------------------------------------------------------------------------
\* C11: unknown type names.

\* A non-pointer type whose base name is not in the primitive table and names
\* neither a struct nor an enum of the header.
UnknownType(t) ==
    /\ ~t.IsPointer
    /\ t.Name \notin PrimitiveNames
    /\ ~KnownBodyStruct(t.Name)
    /\ ~KnownOpaqueStruct(t.Name)
    /\ ~KnownEnum(t.Name)

\* The Go type is derived from the unknown name and the descriptor is the
\* default of cTypeToFFIType.
EmittedFromName(goType, ffiType, t) ==
    goType = toGoName(t.Name) /\ ffiType = s_TypePointer

\* The emitted struct of header.Structs[k]: its record and its descriptor.
EmittedFields(k) == files.types.structs[k][1].body

EmittedElements(k) == files.types.structs[k][2].body

EmittedWrappers == files.functions.wrappers

EmittedPreps == files.functions.loadFuncs

\* C11: when a declaration has a non-pointer type whose base name is neither
\* a primitive nor a known struct nor a known enum, the run ends with an
\* error, and no return type, parameter or field is emitted with the Go type
\* made from the unknown name and the pointer descriptor.
C11_UnknownTypeIsReported ==
    pc = "done" =>
        /\ \A k \in DOMAIN header.Functions :
              LET fn == header.Functions[k]
              IN  /\ UnknownType(fn.ReturnType) =>
                        /\ err # NilError
                        /\ k \in DOMAIN EmittedWrappers =>
                              ~EmittedFromName(EmittedWrappers[k].results[1],
                                               EmittedPreps[k].args[1], fn.ReturnType)
                  /\ \A i \in DOMAIN fn.Params :
                        UnknownType(fn.Params[i].Type) =>
                            /\ err # NilError
                            /\ k \in DOMAIN EmittedWrappers =>
                                  ~EmittedFromName(EmittedWrappers[k].params[i].type,
                                                   EmittedPreps[k].args[i + 1],
                                                   fn.Params[i].Type)
        /\ \A k \in DOMAIN header.Structs :
              \A i \in DOMAIN header.Structs[k].Fields :
                 UnknownType(header.Structs[k].Fields[i].Type) =>
                     /\ err # NilError
                     /\ k \in DOMAIN files.types.structs =>
                           ~EmittedFromName(EmittedFields(k)[i].type,
                                            EmittedElements(k)[i],
                                            header.Structs[k].Fields[i].Type)

---------------------------------------------------------------------------
\* C12: variadic functions.

\* lib.Prep is emitted for the C symbol n.
Registered(n) == \E k \in DOMAIN EmittedPreps : EmittedPreps[k].symbol = n

\* A wrapper is emitted for the C function n.
Wrapped(n) == \E k \in DOMAIN EmittedWrappers : EmittedWrappers[k].name = toGoName(n)

\* C12: for every function declaration whose variadic flag is set, the run
\* ends with an error and neither a registration nor a wrapper is emitted for
\* the function.
C12_VariadicIsRejected ==
    pc = "done" =>
        \A k \in DOMAIN header.Functions :
           header.Functions[k].IsVariadic =>
               /\ err # NilError
               /\ ~Registered(header.Functions[k].Name)
               /\ ~Wrapped(header.Functions[k].Name)

\* Every function without the variadic flag is registered and wrapped.
C12_FixedArityIsEmitted ==
    pc = "done" =>
        \A k \in DOMAIN header.Functions :
           ~header.Functions[k].IsVariadic =>
               /\ Registered(header.Functions[k].Name)
               /\ Wrapped(header.Functions[k].Name)

---------------------------------------------------------------------------
\* C13: colliding Go identifiers.

\* The places of the types file that define a type or a constant: the first
\* emission of each struct and of each enum, and each line of a const block.
TypeDefSites ==
    {<<"struct", k, 0>> : k \in DOMAIN files.types.structs}
        \cup {<<"enum", k, 0>> : k \in DOMAIN files.types.enums}
        \cup {<<"const", k, i>> : k \in DOMAIN files.types.enums,
                                  i \in 1..MaxMembers}

IsSite(s) ==
    s \in TypeDefSites
        /\ (s[1] = "const" => s[3] \in DOMAIN files.types.enums[s[2]][2].body)

SiteName(s) ==
    CASE s[1] = "struct" -> files.types.structs[s[2]][1].name
      [] s[1] = "enum" -> files.types.enums[s[2]][1].name
      [] s[1] = "const" -> files.types.enums[s[2]][2].body[s[3]].name

\* Two structs, two enums or two enum members of the header have the same
\* Go name.
NamesCollide ==
    \/ \E i, j \in DOMAIN header.Structs :
          i # j /\ toGoName(header.Structs[i].Name) = toGoName(header.Structs[j].Name)
    \/ \E i, j \in DOMAIN header.Enums :
          i # j /\ toGoName(header.Enums[i].Name) = toGoName(header.Enums[j].Name)
    \/ \E i, j \in DOMAIN header.Enums :
          \E a \in DOMAIN header.Enums[i].Values, b \in DOMAIN header.Enums[j].Values :
             /\ <<i, a>> # <<j, b>>
             /\ toGoEnumName(header.Enums[i].Name, header.Enums[i].Values[a].Name)
                    = toGoEnumName(header.Enums[j].Name, header.Enums[j].Values[b].Name)

\* C13: when two structs, two enums or two enum members map to one Go
\* identifier the run ends with an error, and no two type or constant
\* definitions of the emitted types file have the same identifier.
C13_DuplicateNameIsReported ==
    pc = "done" =>
        /\ NamesCollide => err # NilError
        /\ \A s, t \in TypeDefSites :
              (IsSite(s) /\ IsSite(t) /\ s # t) => SiteName(s) # SiteName(t)

\* Type and constant definitions share an identifier only when the Go names
\* of two declarations do.
C13_CollisionsComeFromNames ==
    pc = "done" =>
        ((\E s, t \in TypeDefSites :
             /\ IsSite(s) /\ IsSite(t) /\ s # t
             /\ s[1] = t[1]
             /\ SiteName(s) = SiteName(t))
         => NamesCollide)

---------------------------------------------------------------------------
\* C14: field sizes, in bytes on a 64-bit target.

AlignUp(n, a) == ((n + a - 1) \div a) * a

Max(S) == CHOOSE x \in S : \A y \in S : y <= x

\* The offset after the members ms are placed from offset off, each at the
\* next multiple of its alignment.
RECURSIVE PlaceAll(_, _)
PlaceAll(ms, off) ==
    IF ms = <<>> THEN off
    ELSE PlaceAll(Tail(ms), AlignUp(off, Head(ms).align) + Head(ms).size)

\* Size and alignment of a struct with the members ms.
Aggregate(ms) ==
    LET a == Max({1} \cup {ms[i].align : i \in DOMAIN ms})
    IN  [size |-> AlignUp(PlaceAll(ms, 0), a), align |-> a]

Scalar(bytes) == [size |-> bytes, align |-> IF bytes = 0 THEN 1 ELSE bytes]

\* The type definitions of the emitted types file.
EmittedTypeDefs ==
    {files.types.structs[k][1] : k \in DOMAIN files.types.structs}
        \cup {files.types.enums[k][1] : k \in DOMAIN files.types.enums}

\* Size and alignment of a Go type as the emitted file declares it: a
\* string is a pointer and a length, a defined type has the layout of its
\* underlying type, a name the file does not define has none.
RECURSIVE GoLayout(_)
GoLayout(t) ==
    IF GoBuiltinShape(t).class # "none" THEN Scalar(GoBuiltinShape(t).bits \div 8)
    ELSE IF t = s_string THEN [size |-> 16, align |-> 8]
    ELSE IF t = s_uintptr \/ HasPrefix(t, s_star) THEN Scalar(8)
    ELSE IF \E d \in EmittedTypeDefs : d.name = t
    THEN LET d == CHOOSE d \in EmittedTypeDefs : d.name = t
         IN  IF d.kind = "type" THEN GoLayout(d.body[1])
             ELSE Aggregate([i \in DOMAIN d.body |-> GoLayout(d.body[i].type)])
    ELSE Scalar(0)

\* The descriptor variables of the emitted types file.
EmittedDescriptors ==
    {files.types.structs[k][2] :
        k \in {j \in DOMAIN files.types.structs : Len(files.types.structs[j]) = 2}}

\* Size and alignment a foreign descriptor describes: a built-in one by its
\* width, "&FFIType<Name>" by the elements given to ffi.NewType.
RECURSIVE FFILayout(_)
FFILayout(d) ==
    IF FFIShape(d).class # "aggregate" THEN Scalar(FFIShape(d).bits \div 8)
    ELSE IF \E v \in EmittedDescriptors : s_amp \o v.name = d
    THEN LET v == CHOOSE v \in EmittedDescriptors : s_amp \o v.name = d
         IN  Aggregate([i \in DOMAIN v.body |-> FFILayout(v.body[i])])
    ELSE Scalar(0)

\* Field i of the struct header.Structs[k] has a Go type as large as its
\* descriptor element.
FieldSizesAgree(k, i) ==
    GoLayout(EmittedFields(k)[i].type).size = FFILayout(EmittedElements(k)[i]).size

\* C14: for every struct with a body and every field whose type the mapper
\* has a rule for (primitive, enum, nested struct, char pointer, struct
\* pointer, other pointer), the Go type emitted for the field is as large as
\* the field's element of the struct's descriptor.
C14_FieldSizesMatchDescriptor ==
    pc = "done" =>
        \A k \in DOMAIN header.Structs :
           ~header.Structs[k].IsOpaque =>
               \A i \in DOMAIN header.Structs[k].Fields :
                  ~UnknownType(header.Structs[k].Fields[i].Type)
                      => FieldSizesAgree(k, i)

\* The sizes agree for every such field that is neither a char pointer nor
\* of an enum type.
C14_ExceptStringsAndEnums ==
    pc = "done" =>
        \A k \in DOMAIN header.Structs :
           ~header.Structs[k].IsOpaque =>
               \A i \in DOMAIN header.Structs[k].Fields :
                  LET t == header.Structs[k].Fields[i].Type
                  IN  (~UnknownType(t) /\ ~isStringType(t)
                          /\ (t.IsPointer \/ ~KnownEnum(t.Name) \/ KnownBodyStruct(t.Name)))
                      => FieldSizesAgree(k, i)

---------------------------------------------------------------------------
\* C15: the identifiers of a wrapper.

DeclaresLocal(stmt) == stmt.kind \in {"bytePtrFromString", "var"}

\* The identifiers a wrapper declares in its function block, in the order of
\* the text: the parameters, then the locals of the statements before Call.
DeclaredIdentifiers(w) ==
    LET locals == SelectSeq(w.body, DeclaresLocal)
    IN  [i \in DOMAIN w.params |-> w.params[i].name]
            \o [i \in DOMAIN locals |-> locals[i].name]

PairwiseDistinct(ids) == \A i, j \in DOMAIN ids : i # j => ids[i] # ids[j]

\* C15: in every emitted wrapper the parameter names and the locals
\* (`result` or `resultPtr`, and `<param>Ptr` of each char pointer
\* parameter) are pairwise different identifiers.
C15_WrapperIdentifiersDistinct ==
    pc = "done" =>
        \A k \in DOMAIN EmittedWrappers :
           PairwiseDistinct(DeclaredIdentifiers(EmittedWrappers[k]))

\* The identifiers are pairwise different when every parameter has a name
\* in the header and no name becomes `result` or ends in `Ptr`.
C15_NamedParametersDistinct ==
    pc = "done" =>
        \A k \in DOMAIN EmittedWrappers :
           (\A i \in DOMAIN header.Functions[k].Params :
                LET p == header.Functions[k].Params[i]
                IN  /\ p.Name # s_empty
                    /\ paramName(p) # s_result
                    /\ ~HasSuffix(paramName(p), s_Ptr)
                    /\ \A j \in DOMAIN header.Functions[k].Params :
                          i # j => header.Functions[k].Params[j].Name # p.Name)
           => PairwiseDistinct(DeclaredIdentifiers(EmittedWrappers[k]))

=============================================================================
